---- MODULE Spec2Model ----
(***************************************************************************)
(* Model of mnstateparks/scrape_mn_state_parks.py.                         *)
(*                                                                         *)
(* Text is a sequence of characters; a word that the code only handles as  *)
(* a whole (a word of a heading, the site name in a title, a fixed part of *)
(* a URL or of a query) is one token.  A parsed document is a              *)
(* tree: a text node is [name |-> "#text", s |-> text], an element is      *)
(* [name |-> tag, kids |-> sequence of nodes].  A position in a tree is    *)
(* the path (sequence of child indexes) from the root.                     *)
(*                                                                         *)
(* Three specifications share the variables:                               *)
(*   Spec      main(): index collection, the per-link loop, sort, dump     *)
(*   SpecWiki  wiki_image_lookup, one request per step                     *)
(*   SpecDoc   extract_section_text / parse_highlights / parse_hours       *)
(*             applied to enumerated documents                             *)
(***************************************************************************)
EXTENDS Integers, Sequences, FiniteSets, TLC

VARIABLES
  pc,        \* position of main(): "start", "loop", "done", "aborted"
  indexPage, \* anchors (href) of the A-Z page, in document order
  links,     \* main(): links
  i,         \* main(): 1-based position of the loop in links
  out,       \* main(): out
  requests,  \* detail-page URLs requested so far, in order
  warnings,  \* URLs logged by logging.warning, in order
  file,      \* contents of parks.json, None while unwritten
  report,    \* the small report printed at the end, None before
  wpc,       \* position of wiki_image_lookup and its caller
  wname,     \* wiki_image_lookup: park_name
  wk,        \* wiki_image_lookup: 1-based position in candidates
  wlog,      \* requests issued to WIKI_API: <<query, response>> in order
  wret,      \* value returned by wiki_image_lookup
  dpc,       \* position of the extraction in scrape_park
  doc,       \* the parsed page under extraction
  hnode,     \* highlights_node
  onode,     \* hours_node
  hls,       \* highlights
  hrs,       \* hours
  rec        \* what scrape_park returned for the document, None before

mainVars == <<pc, indexPage, links, i, out, requests, warnings, file, report>>
wikiVars == <<wpc, wname, wk, wlog, wret>>
docVars  == <<dpc, doc, hnode, onode, hls, hrs, rec>>
vars     == <<mainVars, wikiVars, docVars>>

(***************************************************************************)
(* Bounds                                                                  *)
(***************************************************************************)
MaxAnchors == 3   \* anchors on the index page
NumIds     == 2   \* distinct park ids
MaxText    == 4   \* characters in the text of a single enumerated item
ShortLen   == 1   \* characters in an item text of an enumerated longer list
MaxItems   == 2   \* items in an enumerated list
MaxBody    == 3   \* sibling nodes in an enumerated page body

(***************************************************************************)
(* Optional values and small sequence helpers                              *)
(***************************************************************************)
None == [tag |-> "None"]
Some(v) == [tag |-> "Some", v |-> v]
NoNode == [name |-> "#none"]

Txt(s) == [name |-> "#text", s |-> s]
El(n, ks) == [name |-> n, kids |-> ks]
IsText(n) == n.name = "#text"

RECURSIVE SeqsUpTo(_, _)
SeqsUpTo(S, n) ==
  IF n = 0 THEN {<<>>}
  ELSE LET shorter == SeqsUpTo(S, n - 1)
       IN shorter \cup {Append(s, e) : s \in {t \in shorter : Len(t) = n - 1}, e \in S}

RECURSIVE Flatten(_)
Flatten(ss) == IF ss = <<>> THEN <<>> ELSE Head(ss) \o Flatten(Tail(ss))

Range(s) == {s[k] : k \in 1..Len(s)}

(***************************************************************************)
(* Text helpers                                                            *)
(***************************************************************************)
WS == {" ", "\n"}

RECURSIVE lstrip(_)
lstrip(s) == IF s # <<>> /\ Head(s) \in WS THEN lstrip(Tail(s)) ELSE s

RECURSIVE rstrip(_)
rstrip(s) ==
  IF s # <<>> /\ s[Len(s)] \in WS THEN rstrip(SubSeq(s, 1, Len(s) - 1)) ELSE s

strip(s) == rstrip(lstrip(s))

\* re.sub(r"\s+", " ", s)
RECURSIVE sub_ws(_)
sub_ws(s) ==
  IF s = <<>> THEN <<>>
  ELSE IF Head(s) \in WS THEN <<" ">> \o sub_ws(lstrip(s))
  ELSE <<Head(s)>> \o sub_ws(Tail(s))

clean_spaces(s) == strip(sub_ws(s))

\* str.join
RECURSIVE join(_, _)
join(sep, parts) ==
  IF parts = <<>> THEN <<>>
  ELSE IF Len(parts) = 1 THEN parts[1]
  ELSE parts[1] \o sep \o join(sep, Tail(parts))

\* str.lower on the letters and words the model uses (a word of a heading is
\* one token)
lower_char(c) ==
  CASE c = "A" -> "a" [] c = "B" -> "b" [] c = "C" -> "c"
    [] c \in {"Park", "PARK"} -> "park"
    [] c \in {"Highlights", "HIGHLIGHTS"} -> "highlights"
    [] c \in {"Hours", "HOURS"} -> "hours"
    [] c = "Parking" -> "parking"
    [] OTHER -> c
lower(s) == [k \in 1..Len(s) |-> lower_char(s[k])]

\* html.unescape: the entity token becomes the character it names
unescape_char(c) == IF c = "&amp;" THEN "&" ELSE c
unescape(s) == [k \in 1..Len(s) |-> unescape_char(s[k])]

(***************************************************************************)
(* Document tree (BeautifulSoup)                                           *)
(***************************************************************************)
NoPath == <<0>>

RECURSIVE NodeAt(_, _)
NodeAt(root, path) ==
  IF path = <<>> THEN root ELSE NodeAt(root.kids[Head(path)], Tail(path))

\* paths of all descendants of the node at prefix, in document order
RECURSIVE DescPaths(_, _)
DescPaths(node, prefix) ==
  IF IsText(node) THEN <<>>
  ELSE Flatten([k \in 1..Len(node.kids) |->
         <<prefix \o <<k>>>> \o DescPaths(node.kids[k], prefix \o <<k>>)])

\* Tag.find_all(names): paths of the descendant elements with one of the names
find_all_paths(root, names) ==
  SelectSeq(DescPaths(root, <<>>), LAMBDA p : NodeAt(root, p).name \in names)

find_all(root, names) ==
  LET ps == find_all_paths(root, names)
  IN [k \in 1..Len(ps) |-> NodeAt(root, ps[k])]

\* Tag.find(name): the first such element, or nothing
find(root, name) ==
  LET found == find_all(root, {name})
  IN IF found = <<>> THEN NoNode ELSE found[1]

\* Tag.find_next_sibling(): the next sibling that is an element
find_next_sibling_path(root, path) ==
  LET parent == NodeAt(root, SubSeq(path, 1, Len(path) - 1))
      later == {k \in (path[Len(path)] + 1)..Len(parent.kids) : ~IsText(parent.kids[k])}
  IN IF later = {} THEN NoPath
     ELSE SubSeq(path, 1, Len(path) - 1) \o <<CHOOSE k \in later : \A m \in later : k <= m>>

\* all strings below a node, in document order
RECURSIVE all_strings(_)
all_strings(node) ==
  IF IsText(node) THEN <<node.s>>
  ELSE Flatten([k \in 1..Len(node.kids) |-> all_strings(node.kids[k])])

\* Tag.get_text(separator=sep, strip=True)
get_text(node, sep) ==
  LET stripped == [k \in 1..Len(all_strings(node)) |-> strip(all_strings(node)[k])]
  IN join(sep, SelectSeq(stripped, LAMBDA t : t # <<>>))

(***************************************************************************)
(* extract_section_text                                                    *)
(***************************************************************************)
Headings == {"h1", "h2", "h3", "h4", "h5", "h6"}
Punct == {";", "|", "middot", "bullet", "&", "&amp;"}
IsWordChar(c) == c \notin WS /\ c \notin Punct

\* A heading pattern \b<first>\s+<second>\b is the pair of its two words;
\* a word of the pattern is one token of the text.
PatHighlights == <<"park", "highlights">>
PatHours == <<"park", "hours">>

\* re.search(heading_regex, txt, flags=re.I)
re_search(pat, txt) ==
  \E k \in 1..Len(txt) :
    /\ lower_char(txt[k]) = pat[1]
    /\ k = 1 \/ ~IsWordChar(txt[k - 1])
    /\ \E m \in (k + 2)..Len(txt) :
         /\ \A j \in (k + 1)..(m - 1) : txt[j] \in WS
         /\ lower_char(txt[m]) = pat[2]
         /\ m = Len(txt) \/ ~IsWordChar(txt[m + 1])

heading_matches(root, path, pat) ==
  re_search(pat, lower(clean_spaces(get_text(NodeAt(root, path), <<" ">>))))

\* variant: paragraphs are skipped as well
RECURSIVE skip_paragraphs_too(_, _)
skip_paragraphs_too(root, path) ==
  IF path # NoPath /\ NodeAt(root, path).name \in {"script", "style", "p"}
  THEN skip_paragraphs_too(root, find_next_sibling_path(root, path))
  ELSE path

\* the while loop of lines 81-82
RECURSIVE skip_script_style(_, _)
skip_script_style(root, path) ==
  IF path # NoPath /\ NodeAt(root, path).name \in {"script", "style"}
  THEN skip_script_style(root, find_next_sibling_path(root, path))
  ELSE path

extract_section_path(root, pat) ==
  LET hs == find_all_paths(root, Headings)
      matching == SelectSeq(hs, LAMBDA p : heading_matches(root, p, pat))
  IN IF matching = <<>> THEN NoPath
     ELSE skip_script_style(root, find_next_sibling_path(root, matching[1]))

extract_section_text(root, pat) ==
  LET p == extract_section_path(root, pat)
  IN IF p = NoPath THEN NoNode ELSE NodeAt(root, p)

(***************************************************************************)
(* parse_highlights, parse_hours                                           *)
(***************************************************************************)
\* length of the match of \s*\|\s*|;\s*|·\s*|•\s* at the start of s, 0 if none
split_match_len(s) ==
  LET r == lstrip(s)
  IN IF r # <<>> /\ Head(r) = "|" THEN Len(s) - Len(lstrip(Tail(r)))
     ELSE IF s # <<>> /\ Head(s) \in {";", "middot", "bullet"}
          THEN Len(s) - Len(lstrip(Tail(s)))
     ELSE 0

\* re.split of the separator pattern
RECURSIVE re_split(_, _)
re_split(s, cur) ==
  IF s = <<>> THEN <<cur>>
  ELSE IF split_match_len(s) > 0
       THEN <<cur>> \o re_split(SubSeq(s, split_match_len(s) + 1, Len(s)), <<>>)
  ELSE re_split(Tail(s), Append(cur, Head(s)))

\* variant: empty entries are kept
cleaned_keep_empty(texts) == [k \in 1..Len(texts) |-> clean_spaces(texts[k])]

nonempty_cleaned(texts) ==
  SelectSeq([k \in 1..Len(texts) |-> clean_spaces(texts[k])], LAMBDA t : t # <<>>)

parse_highlights(section_node) ==
  IF section_node = NoNode THEN <<>>
  ELSE LET ul == IF section_node.name = "ul" THEN section_node
                 ELSE find(section_node, "ul")
       IN IF ul # NoNode
          THEN LET lis == find_all(ul, {"li"})
               IN nonempty_cleaned([k \in 1..Len(lis) |-> get_text(lis[k], <<" ">>)])
          ELSE LET text == clean_spaces(get_text(section_node, <<" ", "|", " ">>))
               IN IF text = <<>> THEN <<>>
                  ELSE nonempty_cleaned(re_split(text, <<>>))

\* variant: a missing node gives the empty string
parse_hours_empty_string(section_node) ==
  IF section_node = NoNode THEN Some(<<>>)
  ELSE LET txt == unescape(clean_spaces(get_text(section_node, <<" ">>)))
       IN IF txt = <<>> THEN None ELSE Some(txt)

parse_hours(section_node) ==
  IF section_node = NoNode THEN None
  ELSE LET txt == unescape(clean_spaces(get_text(section_node, <<" ">>)))
       IN IF txt = <<>> THEN None ELSE Some(txt)

(***************************************************************************)
(* wiki_image_lookup                                                       *)
(*                                                                         *)
(* A response of WIKI_API is                                               *)
(*   [kind |-> "error"]    transport error, HTTP error status or bad JSON  *)
(*   [kind |-> "noquery"]  JSON without query/pages                        *)
(*   [kind |-> "nopage"]   JSON whose pages object is empty                *)
(*   [kind |-> "page", thumb, fullurl, title]  the first page; each field  *)
(*                         is None when the key is missing                 *)
(***************************************************************************)
NumCandidates == 4

candidates(park_name) ==
  << park_name \o <<" State Park (Minnesota)">>,
     park_name \o <<", Minnesota">>,
     park_name \o <<" State Park Minnesota">>,
     park_name \o <<" State Park">> >>

Credit == <<"Image via Wikipedia/Wikimedia Commons (license varies by file).">>

\* title.replace(' ', '_')
replace_space(s) == [k \in 1..Len(s) |-> IF s[k] = " " THEN "_" ELSE s[k]]

Continue == [t |-> "continue"]
Exception == [t |-> "exception"]
Return(v) == [t |-> "return", v |-> v]

\* variant: a thumbnail is accepted when the key is present, even if empty
wiki_try_body_any_thumb(resp) ==
  IF resp.kind = "error" THEN Exception
  ELSE IF resp.kind = "noquery" THEN Continue
  ELSE IF resp.kind = "nopage" THEN Exception
  ELSE LET page_url ==
             IF resp.fullurl # None /\ resp.fullurl.v # <<>> THEN resp.fullurl
             ELSE IF resp.title # None /\ resp.title.v # <<>>
                  THEN Some(<<"https://en.wikipedia.org/wiki/">> \o replace_space(resp.title.v))
             ELSE None
       IN IF resp.thumb # None
          THEN Return([image_thumb |-> resp.thumb.v,
                       image_source |-> page_url,
                       page_title |-> resp.title,
                       page_url |-> page_url,
                       credit |-> Credit])
          ELSE Continue

\* lines 153-171: the body of the try block for one response
wiki_try_body(resp) ==
  IF resp.kind = "error" THEN Exception
  ELSE IF resp.kind = "noquery" THEN Continue
  ELSE IF resp.kind = "nopage" THEN Exception
  ELSE LET page_url ==
             IF resp.fullurl # None /\ resp.fullurl.v # <<>> THEN resp.fullurl
             ELSE IF resp.title # None /\ resp.title.v # <<>>
                  THEN Some(<<"https://en.wikipedia.org/wiki/">> \o replace_space(resp.title.v))
             ELSE None
       IN IF resp.thumb # None /\ resp.thumb.v # <<>>
          THEN Return([image_thumb |-> resp.thumb.v,
                       image_source |-> page_url,
                       page_title |-> resp.title,
                       page_url |-> page_url,
                       credit |-> Credit])
          ELSE Continue

\* variant: the exception of a candidate is not caught
wiki_try_uncaught(resp) == wiki_try_body(resp)

\* lines 152-173: try ... except Exception: continue
wiki_try(resp) ==
  IF wiki_try_body(resp).t = "exception" THEN Continue ELSE wiki_try_body(resp)

\* lines 138-174 for the responses resps[k..]: the value returned, the
\* number of requests issued, and whether an exception escaped
RECURSIVE wiki_loop(_, _)
wiki_loop(resps, k) ==
  IF k > NumCandidates THEN [t |-> "return", v |-> None, n |-> k - 1]
  ELSE LET r == wiki_try(resps[k])
       IN IF r.t = "return" THEN [t |-> "return", v |-> r.v, n |-> k]
          ELSE IF r.t = "exception" THEN [t |-> "exception", n |-> k]
          ELSE wiki_loop(resps, k + 1)

wiki_image_lookup(resps) == wiki_loop(resps, 1)

(***************************************************************************)
(* scrape_park                                                             *)
(***************************************************************************)
\* re.sub(r"\s*\|\s*Minnesota DNR.*$", "", title); "Minnesota DNR" is one
\* token.  "." does not match a newline and "$" matches at the end or before
\* a final newline.
suffix_at(s, p) ==
  LET r == lstrip(SubSeq(s, p, Len(s)))
      t == IF r = <<>> THEN <<>> ELSE lstrip(Tail(r))
  IN /\ r # <<>> /\ Head(r) = "|"
     /\ t # <<>> /\ Head(t) = "Minnesota DNR"
     /\ \A k \in 2..Len(t) : t[k] = "\n" => k = Len(t)

strip_site_suffix(s) ==
  LET starts == {p \in 1..Len(s) : suffix_at(s, p)}
      first == CHOOSE p \in starts : \A q \in starts : p <= q
  IN IF starts = {} THEN s
     ELSE SubSeq(s, 1, first - 1) \o (IF s[Len(s)] = "\n" THEN <<"\n">> ELSE <<>>)

\* lines 209-215
page_name(url, page) ==
  LET h1 == find(page.root, "h1")
  IN IF h1 # NoNode THEN clean_spaces(get_text(h1, <<" ">>))
     ELSE LET title == IF page.title # None THEN strip(page.title.v) ELSE url
          IN clean_spaces(strip_site_suffix(title))

\* lines 231-238 (the join keys of normalize_join_names are functions of
\* park_name alone and are left out of the record)
park_record(name, url, highlights, hours, img) ==
  [park_name |-> name, official_url |-> url, highlights |-> highlights,
   hours |-> hours, image |-> img]

\* fetch is [kind |-> "error"] or [kind |-> "page", title, root];
\* resps are the responses WIKI_API would give to the 4 candidates
scrape_park(url, fetch, resps) ==
  IF fetch.kind = "error" THEN Exception
  ELSE LET name == page_name(url, fetch)
           highlights == parse_highlights(extract_section_text(fetch.root, PatHighlights))
           hours == parse_hours(extract_section_text(fetch.root, PatHours))
           img == wiki_image_lookup(resps)
       IN IF img.t = "exception" THEN Exception
          ELSE Return(park_record(name, url, highlights, hours, img.v))

(***************************************************************************)
(* get_index_links                                                         *)
(***************************************************************************)
BASE == "https://www.dnr.state.mn.us"
ParkPath == "/state_parks/park.html?id="

\* urljoin(BASE, href) for an absolute href and for a root-relative one
urljoin(href) == IF href # <<>> /\ Head(href) = BASE THEN href ELSE <<BASE>> \o href

\* "state_parks/park.html?id=" in href
is_park_href(href) == ParkPath \in Range(href)

\* variant: every matching link is kept
dedupe_keep_all(us, seen) == us

\* variant: the last occurrence of a link is kept instead of the first
RECURSIVE dedupe_keep_last(_, _)
dedupe_keep_last(us, seen) ==
  IF us = <<>> THEN <<>>
  ELSE IF Head(us) \in Range(Tail(us)) THEN dedupe_keep_last(Tail(us), seen)
  ELSE <<Head(us)>> \o dedupe_keep_last(Tail(us), seen)

\* lines 59-66
RECURSIVE dedupe(_, _)
dedupe(us, seen) ==
  IF us = <<>> THEN <<>>
  ELSE IF Head(us) \in seen THEN dedupe(Tail(us), seen)
  ELSE <<Head(us)>> \o dedupe(Tail(us), seen \cup {Head(us)})

\* variant: a failed fetch of the index yields an empty list of links
get_index_links_swallow(fetch) ==
  IF fetch.kind = "error" THEN Return(<<>>)
  ELSE LET matching == SelectSeq(fetch.anchors, is_park_href)
       IN Return(dedupe([k \in 1..Len(matching) |-> urljoin(matching[k])], {}))

\* fetch is [kind |-> "error"] or [kind |-> "page", anchors]
get_index_links(fetch) ==
  IF fetch.kind = "error" THEN Exception
  ELSE LET matching == SelectSeq(fetch.anchors, is_park_href)
       IN Return(dedupe([k \in 1..Len(matching) |-> urljoin(matching[k])], {}))

(***************************************************************************)
(* sort by name                                                            *)
(***************************************************************************)
ord(c) ==
  CASE c = " " -> 32 [] c = "&" -> 38 [] c = "A" -> 65 [] c = "B" -> 66
    [] c = "C" -> 67 [] c = "a" -> 97 [] c = "b" -> 98 [] c = "|" -> 124
    [] c = "1" -> 49 [] c = "2" -> 50 [] c = "3" -> 51 [] c = "4" -> 52
    [] c = ";" -> 59 [] OTHER -> 104

\* a < b for Python strings
RECURSIVE str_lt(_, _)
str_lt(a, b) ==
  IF b = <<>> THEN FALSE
  ELSE IF a = <<>> THEN TRUE
  ELSE IF ord(Head(a)) # ord(Head(b)) THEN ord(Head(a)) < ord(Head(b))
  ELSE str_lt(Tail(a), Tail(b))

\* variant: a record goes before the records with an equal key
RECURSIVE insert_before_equal(_, _)
insert_before_equal(sorted, d) ==
  IF sorted = <<>> THEN <<d>>
  ELSE IF ~str_lt(Head(sorted).park_name, d.park_name) THEN <<d>> \o sorted
  ELSE <<Head(sorted)>> \o insert_before_equal(Tail(sorted), d)

\* list.sort(key=park_name) is stable: a record goes after the records
\* already placed whose key is not greater
RECURSIVE insert_sorted(_, _)
insert_sorted(sorted, d) ==
  IF sorted = <<>> THEN <<d>>
  ELSE IF str_lt(d.park_name, Head(sorted).park_name) THEN <<d>> \o sorted
  ELSE <<Head(sorted)>> \o insert_sorted(Tail(sorted), d)

RECURSIVE sort_by_name(_)
sort_by_name(s) ==
  IF s = <<>> THEN <<>>
  ELSE insert_sorted(sort_by_name(SubSeq(s, 1, Len(s) - 1)), s[Len(s)])

(***************************************************************************)
(* Inputs                                                                  *)
(***************************************************************************)
Heading(level, text) == El(level, <<Txt(text)>>)
Para(text) == El("p", <<Txt(text)>>)
List(name, texts) == El(name, [k \in 1..Len(texts) |-> El("li", <<Txt(texts[k])>>)])
Page(title, body) == [kind |-> "page", title |-> title, root |-> El("[document]", body)]
FetchError == [kind |-> "error"]

HighlightsHeading == Heading("h2", <<"Park", " ", "highlights">>)
HoursHeading == Heading("h3", <<"PARK", "\n", " ", "hours">>)
ExampleItems == << <<"A">>, <<" ", "B", " ", " ", "C", " ">>, <<>> >>

Ids == 1..NumIds
\* the anchors of the index page: a root-relative link to every park, the
\* absolute form of the link to park 1, and a link to another page
Hrefs ==
  {<<ParkPath, ToString(id)>> : id \in Ids}
    \cup {<<BASE, ParkPath, "1">>}
    \cup {<<"/state_parks/list_alpha.html">>}
IndexFetches ==
  {FetchError} \cup {[kind |-> "page", anchors |-> a] : a \in SeqsUpTo(Hrefs, MaxAnchors)}

\* detail pages main() may be served: one with a top heading and both
\* sections, one named by its title and without sections
MainPages ==
  { Page(Some(<<"x">>),
         << Heading("h1", <<"B">>), HighlightsHeading, List("ul", ExampleItems),
            HoursHeading, Para(<<"A", " ", "&amp;", " ", "B">>) >>),
    Page(Some(<<" ", "A", " ", "|", " ", "Minnesota DNR", " ", "x">>), <<Para(<<"C">>)>>) }

\* further pages for the extraction: a padded top heading, and no name at all
NamePages ==
  { Page(None, << Heading("h1", <<" ", "B", "\n">>), HoursHeading, Para(<<"C">>) >>),
    Page(None, << HighlightsHeading, El("script", <<>>) >>),
    Page(Some(<<"A", "\n", "|", "Minnesota DNR">>), <<>>) }

ThumbPage == [kind |-> "page", thumb |-> Some(<<"i1">>), fullurl |-> None,
              title |-> Some(<<"T", " ", "1">>)]
NoThumbPage == [kind |-> "page", thumb |-> None, fullurl |-> Some(<<"w1">>),
                title |-> Some(<<"T", " ", "1">>)]
MainResps ==
  { << [kind |-> "error"], [kind |-> "noquery"], [kind |-> "nopage"], NoThumbPage >>,
    << [kind |-> "error"], NoThumbPage, ThumbPage, ThumbPage >> }

\* every response WIKI_API may give
Resps ==
  {[kind |-> k] : k \in {"error", "noquery", "nopage"}}
    \cup [kind : {"page"},
          thumb : {None, Some(<<>>), Some(<<"i1">>)},
          fullurl : {None, Some(<<"w1">>)},
          title : {None, Some(<<"T", " ", "1">>), Some(<<"T", "2">>)}]
WikiNames == {<<"A">>, <<"B">>}
WikiUrl == <<BASE, ParkPath, "1">>

\* page bodies for locating a section: sequences of these sibling nodes
BodyNodes ==
  { HighlightsHeading, HoursHeading, Heading("h4", <<"Parking", " ", "highlights">>),
    El("script", <<>>), El("style", <<>>), Para(<<"A">>), List("ul", << <<"A">> >>),
    El("div", <<HighlightsHeading, Txt(<<"A">>)>>), Txt(<<"A">>) }
BodyPages == {Page(None, b) : b \in SeqsUpTo(BodyNodes, MaxBody)}

\* section nodes for the parsers: the item texts in a ul, in an ol, in a ul
\* inside a div after a lead-in text, and in the spans of a paragraph
ItemChars == {"A", " ", ";"}
ItemLists ==
  SeqsUpTo(SeqsUpTo(ItemChars, ShortLen), MaxItems)
    \cup {<<t>> : t \in SeqsUpTo(ItemChars, MaxText)}
    \cup {ExampleItems}
Spans(texts) == El("p", [k \in 1..Len(texts) |-> El("span", <<Txt(texts[k])>>)])
\* a list whose items end in inline markup: <li>text<b>A</b></li>
Marked(name, texts) ==
  El(name, [k \in 1..Len(texts) |-> El("li", <<Txt(texts[k]), El("b", <<Txt(<<"A">>)>>)>>)])
\* a list with a list inside its first item
Nested(name) ==
  El(name, << El("li", <<Txt(<<"A">>), List("ul", << <<"A", "A">> >>)>>),
              El("li", <<Txt(<<";">>)>>) >>)
SectionNodes ==
  UNION {{ List("ul", ts), List("ol", ts),
           El("div", <<Txt(<<"A">>), List("ul", ts)>>), Spans(ts) } : ts \in ItemLists}
    \cup UNION {{Marked("ul", ts), Marked("ol", ts)} :
                  ts \in SeqsUpTo(SeqsUpTo(ItemChars, ShortLen), MaxItems)}
    \cup {Nested("ul"), Nested("ol")}
SectionPages ==
  {Page(None, <<HighlightsHeading, n>>) : n \in SectionNodes}
    \cup {Page(None, <<HoursHeading, n>>) : n \in {Spans(<<t>>) : t \in SeqsUpTo(ItemChars, MaxText)}}

DocPages == BodyPages \cup SectionPages \cup MainPages \cup NamePages
DocUrl == <<BASE, ParkPath, "1">>

(***************************************************************************)
(* Idle values of the variables a specification does not use               *)
(***************************************************************************)
MainIdle ==
  /\ pc = "idle" /\ indexPage = FetchError /\ links = <<>> /\ i = 0
  /\ requests = <<>> /\ file = None /\ report = None
WikiIdle ==
  /\ wpc = "idle" /\ wname = <<>> /\ wk = 0 /\ wlog = <<>> /\ wret = None
DocIdle ==
  /\ dpc = "idle" /\ doc = FetchError /\ hnode = NoNode /\ onode = NoNode
  /\ hls = <<>> /\ hrs = None /\ rec = None

(***************************************************************************)
(* main()                                                                  *)
(***************************************************************************)
Init ==
  /\ pc = "start"
  /\ indexPage \in IndexFetches
  /\ links = <<>> /\ i = 0 /\ out = <<>> /\ requests = <<>> /\ warnings = <<>>
  /\ file = None /\ report = None
  /\ WikiIdle /\ DocIdle

\* line 244; an exception of get_index_links leaves main()
GetLinks ==
  /\ pc = "start"
  /\ LET r == get_index_links(indexPage)
     IN IF r.t = "return"
        THEN /\ links' = r.v /\ i' = 1 /\ pc' = "loop"
        ELSE /\ pc' = "aborted" /\ UNCHANGED <<links, i>>
  /\ UNCHANGED <<indexPage, out, requests, warnings, file, report, wikiVars, docVars>>

\* variant: the exception of scrape_park leaves main()
on_result_uncaught(link, r) ==
  IF r.t = "return"
  THEN out' = Append(out, r.v) /\ UNCHANGED <<warnings, pc>>
  ELSE pc' = "aborted" /\ UNCHANGED <<out, warnings>>

\* lines 249-254: try: out.append(item) / except Exception: logging.warning
on_result(link, r) ==
  IF r.t = "return"
  THEN out' = Append(out, r.v) /\ UNCHANGED <<warnings, pc>>
  ELSE warnings' = Append(warnings, link) /\ UNCHANGED <<out, pc>>

\* lines 248-255: one iteration of the loop
ScrapeNext ==
  /\ pc = "loop" /\ i <= Len(links)
  /\ \E fetch \in {FetchError} \cup MainPages, resps \in MainResps :
       /\ requests' = Append(requests, [url |-> links[i], ok |-> fetch.kind = "page"])
       /\ on_result(links[i], scrape_park(links[i], fetch, resps))
  /\ i' = i + 1
  /\ UNCHANGED <<indexPage, links, file, report, wikiVars, docVars>>

\* lines 257-273
Finish ==
  /\ pc = "loop" /\ i > Len(links)
  /\ out' = sort_by_name(out)
  /\ file' = Some(out')
  /\ report' = Some([total |-> Len(out'),
                     with_hls |-> Len(SelectSeq(out', LAMBDA d : d.highlights # <<>>)),
                     with_hours |-> Len(SelectSeq(out', LAMBDA d : d.hours # None)),
                     with_img |-> Len(SelectSeq(out', LAMBDA d : d.image # None))])
  /\ pc' = "done"
  /\ UNCHANGED <<indexPage, links, i, requests, warnings, wikiVars, docVars>>

Next == GetLinks \/ ScrapeNext \/ Finish

Spec == Init /\ [][Next]_vars

(***************************************************************************)
(* wiki_image_lookup, one request per step, and its caller                 *)
(***************************************************************************)
InitWiki ==
  /\ wpc = "loop" /\ wname \in WikiNames /\ wk = 1 /\ wlog = <<>> /\ wret = None
  /\ MainIdle /\ out = <<>> /\ warnings = <<>> /\ DocIdle

\* lines 138-173: one iteration of the for loop
WikiRequest ==
  /\ wpc = "loop" /\ wk <= NumCandidates
  /\ \E resp \in Resps :
       /\ wlog' = Append(wlog, [query |-> candidates(wname)[wk], resp |-> resp])
       /\ LET r == wiki_try(resp)
          IN IF r.t = "return" THEN wret' = r.v /\ wpc' = "returned" /\ UNCHANGED wk
             ELSE IF r.t = "exception" THEN wpc' = "raised" /\ UNCHANGED <<wk, wret>>
             ELSE wk' = wk + 1 /\ UNCHANGED <<wpc, wret>>
  /\ UNCHANGED <<wname, mainVars, docVars>>

\* line 174
WikiExhausted ==
  /\ wpc = "loop" /\ wk > NumCandidates
  /\ wret' = None /\ wpc' = "returned"
  /\ UNCHANGED <<wname, wk, wlog, mainVars, docVars>>

\* lines 226-238 and 251-254: scrape_park returns the record and main()
\* appends it; an exception of the lookup reaches the except clause of main()
ScrapeReturn ==
  /\ wpc \in {"returned", "raised"}
  /\ IF wpc = "returned"
     THEN /\ out' = Append(out, park_record(wname, WikiUrl, <<>>, None, wret))
          /\ wpc' = "appended" /\ UNCHANGED warnings
     ELSE /\ warnings' = Append(warnings, WikiUrl)
          /\ wpc' = "skipped" /\ UNCHANGED out
  /\ UNCHANGED <<wname, wk, wlog, wret, docVars,
                 pc, indexPage, links, i, requests, file, report>>

NextWiki == WikiRequest \/ WikiExhausted \/ ScrapeReturn

SpecWiki == InitWiki /\ [][NextWiki]_vars

(***************************************************************************)
(* the extraction of scrape_park on one fetched page                       *)
(***************************************************************************)
InitDoc ==
  /\ dpc = "fetched" /\ doc \in DocPages
  /\ hnode = NoNode /\ onode = NoNode /\ hls = <<>> /\ hrs = None /\ rec = None
  /\ MainIdle /\ out = <<>> /\ warnings = <<>> /\ WikiIdle

\* lines 218 and 222
Locate ==
  /\ dpc = "fetched"
  /\ hnode' = extract_section_text(doc.root, PatHighlights)
  /\ onode' = extract_section_text(doc.root, PatHours)
  /\ dpc' = "located"
  /\ UNCHANGED <<doc, hls, hrs, rec, mainVars, wikiVars>>

\* lines 219 and 223
Parse ==
  /\ dpc = "located"
  /\ hls' = parse_highlights(hnode)
  /\ hrs' = parse_hours(onode)
  /\ dpc' = "parsed"
  /\ UNCHANGED <<doc, hnode, onode, rec, mainVars, wikiVars>>

\* lines 226-238
Build ==
  /\ dpc = "parsed"
  /\ \E resps \in MainResps :
       LET img == wiki_image_lookup(resps)
       IN rec' = IF img.t = "exception" THEN Exception
                 ELSE Return(park_record(page_name(DocUrl, doc), DocUrl, hls, hrs, img.v))
  /\ dpc' = "built"
  /\ UNCHANGED <<doc, hnode, onode, hls, hrs, mainVars, wikiVars>>

NextDoc == Locate \/ Parse \/ Build

SpecDoc == InitDoc /\ [][NextDoc]_vars

(***************************************************************************)
(* Properties of main()                                                    *)
(***************************************************************************)
Anchors == IF indexPage.kind = "page" THEN indexPage.anchors ELSE <<>>
ParkAnchors == {k \in 1..Len(Anchors) : ParkPath \in Range(Anchors[k])}
Absolute(href) == IF Head(href) = BASE THEN href ELSE <<BASE>> \o href
\* position of the first matching anchor of the index page that points to u
FirstAnchor(u) ==
  CHOOSE k \in ParkAnchors :
    /\ Absolute(Anchors[k]) = u
    /\ \A m \in ParkAnchors : Absolute(Anchors[m]) = u => k <= m
\* position of the request for u
RequestOf(u) == CHOOSE k \in 1..Len(requests) : requests[k].url = u
FailedRequests == {k \in 1..Len(requests) : ~requests[k].ok}
IndexHasDuplicate ==
  \E k, m \in ParkAnchors : k < m /\ Absolute(Anchors[k]) = Absolute(Anchors[m])

UrlsPresentAndUnique(coll) ==
  \A k \in 1..Len(coll) :
    /\ coll[k].official_url # <<>>
    /\ \A m \in 1..Len(coll) : coll[k].official_url = coll[m].official_url => k = m

\* C1: every record of the collection main() builds and writes has a
\* non-empty official_url, and no two records share an official_url,
\* whatever the index page and whichever page fetches fail.
C1_OfficialUrlUnique ==
  /\ UrlsPresentAndUnique(out)
  /\ file # None => UrlsPresentAndUnique(file.v)

C1_Witness ==
  /\ pc = "done" /\ IndexHasDuplicate
  /\ Len(file.v) >= 2

\* C2: the collection written to parks.json is ascending by park_name, and
\* records with equal park_name stay in the order in which they were fetched.
C2_SortedStable ==
  file # None =>
    \A k, m \in 1..Len(file.v) :
      k < m =>
        /\ ~str_lt(file.v[m].park_name, file.v[k].park_name)
        /\ file.v[k].park_name = file.v[m].park_name
             => RequestOf(file.v[k].official_url) < RequestOf(file.v[m].official_url)

C2_Witness ==
  /\ pc = "done"
  /\ \E k, m \in 1..Len(file.v) :
       /\ k < m /\ file.v[k].park_name = file.v[m].park_name
       /\ file.v[k] # file.v[m]
       /\ RequestOf(file.v[k].official_url) < RequestOf(file.v[m].official_url)

\* C3: a failed detail-page fetch is logged as a warning and the run goes
\* on: it does not abort, the warnings are exactly the failed URLs in order,
\* and when main() finishes every link was requested and the collection has
\* (number of links) - (number of failed fetches) records.
C3_SkipAndContinue ==
  /\ FailedRequests # {} => pc \in {"loop", "done"}
  /\ Len(warnings) = Cardinality(FailedRequests)
  /\ \A k \in FailedRequests :
       warnings[Cardinality({m \in FailedRequests : m <= k})] = requests[k].url
  /\ pc = "done" =>
       /\ Len(file.v) = Len(links) - Cardinality(FailedRequests)
       /\ [k \in 1..Len(requests) |-> requests[k].url] = links

C3_Witness ==
  /\ pc = "done"
  /\ \E k \in FailedRequests : k < Len(requests) /\ requests[k + 1].ok
  /\ Len(file.v) >= 1

\* C6: when the fetch of the listing page fails, main() is left by the
\* exception: no detail page is requested and parks.json is not written.
C6_IndexFailureAborts ==
  indexPage.kind = "error" =>
    /\ pc \in {"start", "aborted"}
    /\ requests = <<>> /\ out = <<>>
    /\ file = None /\ report = None

C6_Witness == pc = "aborted" /\ indexPage.kind = "error"

\* C9: detail pages are requested in the order in which their URLs first
\* appear among the matching links of the index page; no URL is requested
\* twice, so a URL whose fetch failed is not requested again.
C9_FetchOrder ==
  \A k \in 1..Len(requests) :
    /\ \E a \in ParkAnchors : Absolute(Anchors[a]) = requests[k].url
    /\ \A m \in 1..Len(requests) : requests[m].url = requests[k].url => m = k
    /\ \A a \in ParkAnchors :
         a < FirstAnchor(requests[k].url)
           => \E m \in 1..(k - 1) : requests[m].url = Absolute(Anchors[a])

C9_Witness ==
  /\ pc = "done" /\ IndexHasDuplicate
  /\ Len(requests) >= 2
  /\ \E k \in FailedRequests : k < Len(requests)

(***************************************************************************)
(* Properties of wiki_image_lookup                                         *)
(***************************************************************************)
HasThumb(resp) == resp.kind = "page" /\ resp.thumb \notin {None, Some(<<>>)}
QuerySuffixes ==
  <<" State Park (Minnesota)", ", Minnesota", " State Park Minnesota", " State Park">>
Underscored(s) == [k \in 1..Len(s) |-> IF s[k] = " " THEN "_" ELSE s[k]]
\* the page URL a result page resolves to
ResolvedUrl(resp) ==
  IF resp.fullurl # None THEN resp.fullurl
  ELSE IF resp.title # None
       THEN Some(<<"https://en.wikipedia.org/wiki/">> \o Underscored(resp.title.v))
  ELSE None
LookupFinished == wpc \in {"returned", "appended"}

\* C4: the candidates are queried in their fixed order, the first result
\* page with a non-empty thumbnail is accepted, the descriptor takes its
\* thumbnail, title and page URL from that result, and no request follows
\* an accepted result.
C4_FirstThumbWins ==
  /\ Len(wlog) <= 4
  /\ \A k \in 1..Len(wlog) : wlog[k].query = wname \o <<QuerySuffixes[k]>>
  /\ \A k \in 1..Len(wlog) : HasThumb(wlog[k].resp) => k = Len(wlog)
  /\ \A k \in 1..Len(wlog) :
       HasThumb(wlog[k].resp) =>
         /\ LookupFinished
         /\ wret # None
         /\ wret.image_thumb = wlog[k].resp.thumb.v
         /\ wret.page_title = wlog[k].resp.title
         /\ wret.page_url = ResolvedUrl(wlog[k].resp)
         /\ wret.image_source = ResolvedUrl(wlog[k].resp)
  /\ LookupFinished /\ wret # None => wlog # <<>> /\ HasThumb(wlog[Len(wlog)].resp)

C4_Witness ==
  /\ wpc = "returned" /\ Len(wlog) = 3
  /\ wlog[1].resp.kind = "page" /\ wlog[2].resp.kind = "page"
  /\ HasThumb(wlog[3].resp)
  /\ wlog[1].resp.title # wlog[3].resp.title
  /\ wret.page_title = wlog[3].resp.title

\* C5: wiki_image_lookup never raises: after a candidate that fails or has
\* no thumbnail the next candidate is tried, after the last one the lookup
\* returns no result, and the caller still appends the record, with no
\* image.
C5_LookupNeverRaises ==
  /\ wpc \notin {"raised", "skipped"}
  /\ warnings = <<>>
  /\ \A k \in 1..Len(wlog) :
       ~HasThumb(wlog[k].resp) =>
         \/ Len(wlog) > k
         \/ wpc = "loop" /\ wk = k + 1
         \/ k = 4 /\ LookupFinished /\ wret = None
  /\ LookupFinished /\ (\A k \in 1..Len(wlog) : ~HasThumb(wlog[k].resp))
       => Len(wlog) = 4 /\ wret = None
  /\ wpc = "appended" =>
       /\ Len(out) = 1
       /\ out[1].park_name = wname
       /\ (\A k \in 1..Len(wlog) : ~HasThumb(wlog[k].resp)) => out[1].image = None

C5_Witness ==
  /\ wpc = "appended" /\ out[1].image = None
  /\ \E k \in 1..Len(wlog) : wlog[k].resp.kind = "error"
  /\ \E k \in 1..Len(wlog) : wlog[k].resp.kind = "nopage"
  /\ \E k \in 1..Len(wlog) : wlog[k].resp.kind = "page"

(***************************************************************************)
(* Properties of the extraction                                            *)
(***************************************************************************)
Located == dpc \in {"located", "parsed", "built"}
Parsed == dpc \in {"parsed", "built"}

\* the set of the paths of the descendants of a node
RECURSIVE PathSet(_)
PathSet(node) ==
  IF node.name = "#text" THEN {}
  ELSE UNION {{<<k>>} \cup {<<k>> \o q : q \in PathSet(node.kids[k])} : k \in 1..Len(node.kids)}

\* p is before q in document order
RECURSIVE Before(_, _)
Before(p, q) ==
  /\ p # q
  /\ \/ p = <<>>
     \/ /\ q # <<>>
        /\ \/ Head(p) < Head(q)
           \/ Head(p) = Head(q) /\ Before(Tail(p), Tail(q))

MatchingHeadings(root, pat) ==
  {p \in PathSet(root) :
     /\ NodeAt(root, p).name \in {"h1", "h2", "h3", "h4", "h5", "h6"}
     /\ heading_matches(root, p, pat)}

\* the siblings after the node at p that are elements other than script, style
ContentSiblings(root, p) ==
  LET up == SubSeq(p, 1, Len(p) - 1)
      sibs == NodeAt(root, up).kids
  IN {up \o <<k>> : k \in {j \in (p[Len(p)] + 1)..Len(sibs) :
                             sibs[j].name \notin {"#text", "script", "style"}}}

SectionOf(root, pat) ==
  LET M == MatchingHeadings(root, pat)
  IN IF M = {} THEN NoNode
     ELSE LET first == CHOOSE p \in M : \A q \in M : q = p \/ Before(p, q)
              S == ContentSiblings(root, first)
          IN IF S = {} THEN NoNode
             ELSE NodeAt(root, CHOOSE p \in S : \A q \in S : q = p \/ Before(p, q))

C7_AbsentSection ==
  /\ Parsed /\ hnode = NoNode => hls = <<>>
  /\ Parsed /\ onode = NoNode => hrs = None
  /\ dpc = "built" =>
       /\ rec.t = "return"
       /\ hnode = NoNode => rec.v.highlights = <<>>
       /\ onode = NoNode => rec.v.hours = None

C7_Witness ==
  /\ dpc = "built" /\ hnode = NoNode /\ onode = NoNode
  /\ MatchingHeadings(doc.root, PatHighlights) # {}
  /\ rec.v.highlights = <<>> /\ rec.v.hours = None

\* the words of a text: its maximal runs of non-whitespace characters
RECURSIVE Words(_, _)
Words(s, cur) ==
  IF s = <<>> THEN (IF cur = <<>> THEN <<>> ELSE <<cur>>)
  ELSE IF Head(s) \in {" ", "\n"}
       THEN (IF cur = <<>> THEN <<>> ELSE <<cur>>) \o Words(Tail(s), <<>>)
  ELSE Words(Tail(s), Append(cur, Head(s)))

RECURSIVE SpaceJoined(_)
SpaceJoined(ws) ==
  IF ws = <<>> THEN <<>>
  ELSE IF Len(ws) = 1 THEN ws[1]
  ELSE ws[1] \o <<" ">> \o SpaceJoined(Tail(ws))

\* the text of an item with whitespace runs collapsed and the ends trimmed
Normalized(s) == SpaceJoined(Words(s, <<>>))

\* the first list, of one of the kinds, that the node is or contains
ListsIn(node, kinds) ==
  {p \in {<<>>} \cup PathSet(node) : NodeAt(node, p).name \in kinds}
FirstList(node, kinds) ==
  NodeAt(node, CHOOSE p \in ListsIn(node, kinds) :
                 \A q \in ListsIn(node, kinds) : q = p \/ Before(p, q))
\* a set of paths as the sequence of its elements in document order
RECURSIVE InDocumentOrder(_)
InDocumentOrder(S) ==
  IF S = {} THEN <<>>
  ELSE LET first == CHOOSE p \in S : \A q \in S : q = p \/ Before(p, q)
       IN <<first>> \o InDocumentOrder(S \ {first})
\* the text of a node: its pieces of text, in order, a space between them
RECURSIVE TextOf(_)
TextOf(node) ==
  IF node.name = "#text" THEN node.s
  ELSE IF node.kids = <<>> THEN <<>>
  ELSE LET RECURSIVE Joined(_)
           Joined(k) == IF k = Len(node.kids) THEN TextOf(node.kids[k])
                        ELSE TextOf(node.kids[k]) \o <<" ">> \o Joined(k + 1)
       IN Joined(1)
\* the texts of the items (li) of a list, in document order
ItemTextsOf(list) ==
  LET items == InDocumentOrder({p \in PathSet(list) : NodeAt(list, p).name = "li"})
  IN [k \in 1..Len(items) |-> TextOf(NodeAt(list, items[k]))]
\* one entry per item whose normalized text is not empty
EntriesOf(list) ==
  LET texts == ItemTextsOf(list)
  IN SelectSeq([k \in 1..Len(texts) |-> Normalized(texts[k])], LAMBDA t : t # <<>>)

NoEmptyEntry == \A k \in 1..Len(hls) : hls[k] # <<>>

\* C8 as stated: for a section node that is a list (unordered or ordered)
\* or contains one, the highlights are the normalized texts of the items of
\* that list (the text of an item being its pieces of text with a space
\* between them), in order, without the empty ones; no entry is ever empty.
C8_AnyListItems ==
  Parsed =>
    /\ NoEmptyEntry
    /\ hnode # NoNode /\ ListsIn(hnode, {"ul", "ol"}) # {}
         => hls = EntriesOf(FirstList(hnode, {"ul", "ol"}))

\* C8 (amended): for a section node that is a ul element or contains one,
\* the highlights are the normalized texts of the li items of the first
\* such ul, in document order, without the empty ones; on every path,
\* the fallback included, no entry is empty.
C8_UlItems ==
  Parsed =>
    /\ NoEmptyEntry
    /\ hnode # NoNode /\ ListsIn(hnode, {"ul"}) # {}
         => hls = EntriesOf(FirstList(hnode, {"ul"}))

C8_Witness ==
  /\ dpc = "parsed"
  /\ hnode.name = "ul"
  /\ ItemTextsOf(hnode) = << <<"A">>, <<" ", "B", " ", " ", "C", " ">>, <<>> >>
  /\ hls = << <<"A">>, <<"B", " ", "C">> >>

====
